---- MODULE Spec2Model ----
(***************************************************************************)
(* Model of minikin's FontCollection (FontCollection.cpp): the coverage    *)
(* index built by the constructor, the family resolver getFamilyForChar,   *)
(* the itemizer, and the locking of the shared id counter and family       *)
(* reference counts.                                                       *)
(*                                                                         *)
(* Codepoints and UTF-16 code units are kept as their numeric values:      *)
(*   51 = U+0033 '3'      65 = U+0041 'A'      197 = U+00C5               *)
(*   8192 = U+2000   8193 = U+2001   8194 = U+2002   8195 = U+2003         *)
(*   8419 = U+20E3 (keycap)   8491 = U+212B (angstrom sign)                *)
(*   65038 = U+FE0E   65039 = U+FE0F   128512 = U+1F600                    *)
(*   55357 = 0xD83D, 56832 = 0xDE00 (the surrogate pair of U+1F600)        *)
(***************************************************************************)
EXTENDS Integers, Sequences, FiniteSets

VARIABLES
    typefaces,      \* constructor argument: sequence of FontFamily pointers
    pc,             \* position of the (single) caller of the sequential API
    sNextId,        \* FontCollection::sNextId
    refCount,       \* reference count of every FontFamily object
    gMinikinLock,   \* holder of gMinikinLock (0 = free)
    mId, mMaxChar, mFamilies, mRanges, mFamilyVec,   \* the collection
    query, resolved,                                 \* getFamilyForChar call
    string, style, result, lastFamily, run,          \* itemize locals
    nextCh, prevCh, nextUtf16Pos, readLength,
    tpc, tcoll, treg, tidx,                          \* threads (lock model)
    targ, tret      \* hasVariationSelector call of a thread: arguments, return

collVars == <<mId, mMaxChar, mFamilies, mRanges, mFamilyVec>>
queryVars == <<query, resolved>>
itemVars == <<string, style, result, lastFamily, run, nextCh, prevCh,
              nextUtf16Pos, readLength>>
threadVars == <<tpc, tcoll, treg, tidx, targ, tret>>
sharedVars == <<sNextId, refCount, gMinikinLock>>
vars == <<typefaces, pc, sharedVars, collVars, queryVars, itemVars, threadVars>>

----------------------------------------------------------------------------
(* Bounds of the model *)

MaxFamilies == 2
MaxResolveFamilies == 3
MaxLen == 3
NumThreads == 2

----------------------------------------------------------------------------
(* Program constants *)

NULL == 0
kLogCharsPerPage == 8
kPageMask == 255
\* SparseBitSet::kNotFound and kEndOfString are both 0xFFFFFFFF in the code.
\* They are only compared (with page bounds and decoded codepoints, all
\* below 2^21), so they are represented by the largest integer TLC holds.
kNotFound == 2147483647
kEndOfString == 2147483647
KEYCAP == 8419
NBSP == 160
ZWJ == 8204
ZWNJ == 8205
HYPHEN == 8208
NB_HYPHEN == 8209

stickyWhitelist == {33, 44, 45, 46, 58, 59, 63, NBSP, ZWJ, ZWNJ, KEYCAP,
                    HYPHEN, NB_HYPHEN}

isStickyWhitelisted(c) == c \in stickyWhitelist

isVariationSelector(c) ==
    (65024 <= c /\ c <= 65039) \/ (917760 <= c /\ c <= 917999)

SetMax(S) == CHOOSE x \in S : \A y \in S : y <= x
SetMin(S) == CHOOSE x \in S : \A y \in S : x <= y

max(a, b) == IF a > b THEN a ELSE b

----------------------------------------------------------------------------
(* FontFamily objects.  A family pointer is an index into FamilyTable.     *)
(*   cov    coverage bitset (set of covered codepoints)                    *)
(*   vsSeq  variation sequences <<base, selector>> the family has a glyph  *)
(*          for (independent of cov: see the comment at lines 71-74)       *)
(*   lang   declared language tag (0 = none; tags 1 and 2 are the same     *)
(*          language in two scripts)                                       *)
(*   variant  0 = none, 1 = compact, 2 = elegant                           *)
(*   emoji  lang().hasEmojiFlag()                                          *)
(*   font   getClosestMatch(style).font is non-NULL                        *)
(*   hasCov getCoverage() is non-null                                      *)

FamilyTable == <<
    [cov |-> {65}, vsSeq |-> {<<197, 65038>>},
     lang |-> 1, variant |-> 0, emoji |-> FALSE, font |-> TRUE, hasCov |-> TRUE],
    [cov |-> {51, 65, 8419, 128512}, vsSeq |-> {<<51, 65039>>},
     lang |-> 2, variant |-> 1, emoji |-> TRUE, font |-> TRUE, hasCov |-> TRUE],
    [cov |-> {51, 128512}, vsSeq |-> {},
     lang |-> 1, variant |-> 2, emoji |-> FALSE, font |-> TRUE, hasCov |-> TRUE],
    [cov |-> {8419, 65039}, vsSeq |-> {},
     lang |-> 0, variant |-> 0, emoji |-> TRUE, font |-> TRUE, hasCov |-> TRUE],
    [cov |-> {197, 8193}, vsSeq |-> {<<65, 65038>>},
     lang |-> 1, variant |-> 1, emoji |-> FALSE, font |-> TRUE, hasCov |-> TRUE],
    [cov |-> {}, vsSeq |-> {},
     lang |-> 2, variant |-> 0, emoji |-> FALSE, font |-> TRUE, hasCov |-> TRUE],
    [cov |-> {65}, vsSeq |-> {},
     lang |-> 1, variant |-> 0, emoji |-> FALSE, font |-> FALSE, hasCov |-> TRUE],
    [cov |-> {}, vsSeq |-> {},
     lang |-> 1, variant |-> 0, emoji |-> FALSE, font |-> TRUE, hasCov |-> FALSE] >>

FamilyIds == DOMAIN FamilyTable

CoverageGet(f, ch) == ch \in FamilyTable[f].cov

CoverageLength(f) ==
    IF FamilyTable[f].cov = {} THEN 0 ELSE SetMax(FamilyTable[f].cov) + 1

NextSetBit(f, from) ==
    LET S == {c \in FamilyTable[f].cov : c >= from}
    IN  IF S = {} THEN kNotFound ELSE SetMin(S)

FamilyHasVariationSelector(f, ch, vs) == <<ch, vs>> \in FamilyTable[f].vsSeq

HasClosestMatch(f) == FamilyTable[f].font

HasCoverage(f) == FamilyTable[f].hasCov

LangMatch(req, fam) ==
    IF req = 0 \/ fam = 0 THEN 0 ELSE IF req = fam THEN 2 ELSE 1

\* FontLanguageListCache::getById(id) and the choice of its first language
FirstLang(langList) == IF Len(langList) = 0 THEN 0 ELSE langList[1]

\* unorm2_getRawDecomposition followed by U16_NEXT_UNSAFE: the first
\* codepoint of the raw canonical decomposition, or NULL when there is none
RawDecompositionFirst(ch) ==
    CASE ch = 197  -> 65
      [] ch = 8491 -> 197
      [] ch = 8192 -> 8194
      [] ch = 8193 -> 8195
      [] OTHER -> NULL

----------------------------------------------------------------------------
(* FontCollection::FontCollection *)

\* lines 50-65: the families that survive the filter, in priority order
RECURSIVE CtorFamilies(_, _)
CtorFamilies(tf, i) ==
    IF i > Len(tf) THEN <<>>
    ELSE IF ~HasClosestMatch(tf[i]) THEN CtorFamilies(tf, i + 1)
    ELSE IF ~HasCoverage(tf[i]) THEN CtorFamilies(tf, i + 1)
    ELSE <<tf[i]>> \o CtorFamilies(tf, i + 1)

\* lines 41, 63
RECURSIVE CtorMaxChar(_, _)
CtorMaxChar(fams, i) ==
    IF i > Len(fams) THEN 0
    ELSE max(CoverageLength(fams[i]), CtorMaxChar(fams, i + 1))

\* line 64
CtorLastChar(fams) == [j \in 1..Len(fams) |-> NextSetBit(fams[j], 0)]

\* line 69
CtorNPages(maxChar) == (maxChar + kPageMask) \div (2 ^ kLogCharsPerPage)

\* mutant of InPage: tests the start of the page instead of its end
InPageStart(last, i) == last < i * (2 ^ kLogCharsPerPage)

\* line 84
InPage(last, i) == last < (i + 1) * (2 ^ kLogCharsPerPage)

\* line 88
NextPageChar(f, i) == NextSetBit(f, (i + 1) * (2 ^ kLogCharsPerPage))

\* lines 83-94: the inner loop over the families, for page i, from family j
RECURSIVE CtorPage(_, _, _, _, _)
CtorPage(fams, i, j, lastChar, vec) ==
    IF j > Len(fams) THEN [lastChar |-> lastChar, vec |-> vec]
    ELSE IF InPage(lastChar[j], i)
         THEN CtorPage(fams, i, j + 1,
                       [lastChar EXCEPT ![j] = NextPageChar(fams[j], i)],
                       Append(vec, fams[j]))
         ELSE CtorPage(fams, i, j + 1, lastChar, vec)

\* lines 76-95: the body of the outer loop for page i (0-based), on the
\* loop state st = [lastChar, ranges, vec] (offset is Len(vec))
CtorOnePage(fams, i, st) ==
    LET p == CtorPage(fams, i, 1, st.lastChar, st.vec)
    IN  [lastChar |-> p.lastChar,
         ranges |-> Append(st.ranges,
                           [start |-> Len(st.vec), end |-> Len(p.vec)]),
         vec |-> p.vec]

\* lines 75-96: the outer loop for the pages lo .. hi-1, in ascending order.
\* The iterations lo .. mid-1 run first and hand their loop state to the
\* iterations mid .. hi-1; halving only keeps the evaluation depth small.
RECURSIVE CtorRanges(_, _, _, _)
CtorRanges(fams, lo, hi, st) ==
    IF lo >= hi THEN st
    ELSE IF hi = lo + 1 THEN CtorOnePage(fams, lo, st)
    ELSE LET mid == (lo + hi) \div 2
             left == CtorRanges(fams, lo, mid, st)
         IN  \* the test makes the first half complete before the second
             \* starts (one range is pushed per page, so it always holds)
             IF Len(left.ranges) = mid
             THEN CtorRanges(fams, mid, hi, left)
             ELSE left

CtorIndex(fams) ==
    LET st == CtorRanges(fams, 0, CtorNPages(CtorMaxChar(fams, 1)),
                         [lastChar |-> CtorLastChar(fams), ranges |-> <<>>,
                          vec |-> <<>>])
    IN  [mRanges |-> st.ranges, mFamilyVec |-> st.vec]

\* lines 56-60: the net change of the reference counts (a family with a font
\* and no coverage is referenced and released again)
RECURSIVE CtorRefs(_, _)
CtorRefs(fams, rc) ==
    IF fams = <<>> THEN rc
    ELSE CtorRefs(Tail(fams), [rc EXCEPT ![Head(fams)] = @ + 1])

\* The constructor run by the caller of the sequential API, which holds
\* gMinikinLock from line 42 to the end of the body.
Construct ==
    /\ pc = "new"
    /\ gMinikinLock = 0
    /\ LET fams == CtorFamilies(typefaces, 1)
           idx == CtorIndex(fams)
       IN  /\ mId' = sNextId
           /\ sNextId' = sNextId + 1
           /\ refCount' = CtorRefs(fams, refCount)
           /\ mFamilies' = fams
           /\ mMaxChar' = CtorMaxChar(fams, 1)
           /\ IF Len(fams) = 0
              THEN /\ pc' = "fatal"
                   /\ UNCHANGED <<mRanges, mFamilyVec>>
              ELSE /\ pc' = "built"
                   /\ mRanges' = idx.mRanges
                   /\ mFamilyVec' = idx.mFamilyVec
    /\ UNCHANGED <<typefaces, gMinikinLock, queryVars, itemVars, threadVars>>

----------------------------------------------------------------------------
(* FontCollection::getFamilyForChar *)

\* line 146
HasVSGlyph(f, ch, vs) == (vs # 0) /\ FamilyHasVariationSelector(f, ch, vs)

\* mutant of IsOverride: compares with the last family of the list
IsOverrideLast(f, vs, hasVSGlyph) ==
    (vs = 0 \/ hasVSGlyph) /\ mFamilies[Len(mFamilies)] = f

\* line 148
IsOverride(f, vs, hasVSGlyph) == (vs = 0 \/ hasVSGlyph) /\ mFamilies[1] = f

\* lines 153-162
Score(f, lang, variant, vs, hasVSGlyph) ==
    LangMatch(lang, FamilyTable[f].lang) * 2
    + (IF FamilyTable[f].variant = 0 \/ FamilyTable[f].variant = variant
       THEN 1 ELSE 0)
    + (IF hasVSGlyph THEN 8
       ELSE IF (vs = 65039 /\ FamilyTable[f].emoji)
               \/ (vs = 65038 /\ ~FamilyTable[f].emoji)
            THEN 4 ELSE 0)

\* mutant of IsBetter: a later candidate of equal score replaces the best
IsBetterOrEqual(score, bestScore) == score >= bestScore

\* line 163
IsBetter(score, bestScore) == score > bestScore

\* lines 142-168: the scan of familyVec[i .. end) (0-based), carrying
\* bestFamily and bestScore; returned = TRUE is the early return of line 151
RECURSIVE ScanRange(_, _, _, _, _, _, _, _, _)
ScanRange(familyVec, i, end, ch, vs, lang, variant, bestFamily, bestScore) ==
    IF i >= end THEN [returned |-> FALSE, family |-> bestFamily]
    ELSE LET family == familyVec[i + 1]
             hasVSGlyph == HasVSGlyph(family, ch, vs)
             score == Score(family, lang, variant, vs, hasVSGlyph)
         IN  IF hasVSGlyph \/ CoverageGet(family, ch)
             THEN IF IsOverride(family, vs, hasVSGlyph)
                  THEN [returned |-> TRUE, family |-> family]
                  ELSE IF IsBetter(score, bestScore)
                       THEN ScanRange(familyVec, i + 1, end, ch, vs, lang,
                                      variant, family, score)
                       ELSE ScanRange(familyVec, i + 1, end, ch, vs, lang,
                                      variant, bestFamily, bestScore)
             ELSE ScanRange(familyVec, i + 1, end, ch, vs, lang, variant,
                            bestFamily, bestScore)

\* lines 131-137
ScanVec(vs) == IF vs = 0 THEN mFamilyVec ELSE mFamilies

PageOf(ch) == ch \div (2 ^ kLogCharsPerPage)

ScanBounds(ch, vs) ==
    IF vs = 0 THEN mRanges[PageOf(ch) + 1]
    ELSE [start |-> 0, end |-> Len(mFamilies)]

\* line 120
BeyondMaxChar(ch) == ch >= mMaxChar

\* lines 118-190
RECURSIVE getFamilyForChar(_, _, _, _)
getFamilyForChar(ch, vs, langList, variant) ==
    IF BeyondMaxChar(ch) THEN NULL
    ELSE LET lang == FirstLang(langList)
             range == ScanBounds(ch, vs)
             scan == ScanRange(ScanVec(vs), range.start, range.end, ch, vs,
                               lang, variant, NULL, -1)
             decomposed == RawDecompositionFirst(ch)
         IN  IF scan.returned THEN scan.family
             ELSE IF scan.family = NULL /\ vs # 0
                  THEN getFamilyForChar(ch, 0, langList, variant)
             ELSE IF scan.family = NULL /\ mFamilyVec # <<>>
                  THEN IF decomposed # NULL
                       THEN getFamilyForChar(decomposed, vs, langList, variant)
                       ELSE mFamilies[1]
             ELSE scan.family

QueryCps == {51, 65, 197, 8192, 8419, 8491, 65039, 128512}
QueryVs == {0, 65038, 65039}
LangLists == {<<>>, <<1>>, <<2, 1>>}
Variants == {1, 2}

Resolve ==
    /\ pc = "built"
    /\ \E ch \in QueryCps, vs \in QueryVs, ll \in LangLists, v \in Variants :
          /\ query' = [ch |-> ch, vs |-> vs, langList |-> ll, variant |-> v]
          /\ resolved' = getFamilyForChar(ch, vs, ll, v)
    /\ pc' = "resolved"
    /\ UNCHANGED <<typefaces, sharedVars, collVars, itemVars, threadVars>>

----------------------------------------------------------------------------
(* FontCollection::itemize *)

IsLead(c) == 55296 <= c /\ c <= 56319
IsTrail(c) == 56320 <= c /\ c <= 57343

\* U16_NEXT(s, i, length, c) with i 0-based: the decoded codepoint and the
\* advanced index; an unpaired surrogate decodes to itself
U16Next(s, i) ==
    LET c == s[i + 1]
    IN  IF IsLead(c) /\ i + 1 # Len(s) /\ IsTrail(s[i + 2])
        THEN [c |-> (c - 55296) * 1024 + (s[i + 2] - 56320) + 65536, i |-> i + 2]
        ELSE [c |-> c, i |-> i + 1]

\* U16_LENGTH, line 284
U16Length(c) == IF c <= 65535 THEN 1 ELSE 2

\* lines 263-272
ShouldContinueRun(last, ch) ==
    IF last # NULL
    THEN IF isStickyWhitelisted(ch) THEN CoverageGet(last, ch)
         ELSE isVariationSelector(ch)
    ELSE FALSE

\* mutant of VsArg: the lookahead is never passed as selector
VsArgNone(next) == 0

\* line 275: the variation selector argument of the lookup
VsArg(next) == IF isVariationSelector(next) THEN next ELSE 0

\* line 277
StartsRun(utf16Pos, family, last) == utf16Pos = 0 \/ family # last

\* line 283
AttachesPrev(ch, utf16Pos, family, prev) ==
    ch = KEYCAP /\ utf16Pos # 0 /\ family # NULL /\ CoverageGet(family, prev)

\* mutant of Retract: retracts one code unit whatever the codepoint
RetractOne(end, prevChLength) == end - 1

\* line 285
Retract(end, prevChLength) == end - prevChLength

\* mutant of PopIfEmpty: the emptied run is kept
PopNever(res) == res

\* lines 286-288: pop_back when the retracted run is empty
PopIfEmpty(res) ==
    IF res[Len(res)].start = res[Len(res)].end
    THEN SubSeq(res, 1, Len(res) - 1) ELSE res

Units == {51, 65, 8419, 65039, 55357, 56832}
Texts == UNION {[1..k -> Units] : k \in 0..MaxLen}
Styles == {[langList |-> <<2, 1>>, variant |-> 2]}

\* lines 236-251
ItemizeStart ==
    /\ pc = "built"
    /\ \E s \in Texts, st \in Styles :
          /\ string' = s
          /\ style' = st
          /\ result' = <<>>
          /\ lastFamily' = NULL
          /\ run' = NULL
          /\ prevCh' = 0
          /\ nextUtf16Pos' = 0
          /\ IF Len(s) = 0
             THEN /\ pc' = "itemized"
                  /\ nextCh' = 0
                  /\ readLength' = 0
             ELSE /\ pc' = "itemizing"
                  /\ nextCh' = U16Next(s, 0).c
                  /\ readLength' = U16Next(s, 0).i
    /\ UNCHANGED <<typefaces, sharedVars, collVars, queryVars, threadVars>>

\* lines 253-305: one iteration of the do-while loop
ItemizeStep ==
    /\ pc = "itemizing"
    /\ LET ch == nextCh
           utf16Pos == nextUtf16Pos
           nx == IF readLength < Len(string) THEN U16Next(string, readLength)
                 ELSE [c |-> kEndOfString, i |-> readLength]
           shouldContinueRun == ShouldContinueRun(lastFamily, ch)
           family == getFamilyForChar(ch, VsArg(nx.c), style.langList,
                                      style.variant)
           opens == ~shouldContinueRun /\ StartsRun(utf16Pos, family, lastFamily)
           attach == opens /\ AttachesPrev(ch, utf16Pos, family, prevCh)
           prevChLength == U16Length(prevCh)
           retracted == IF attach
                        THEN PopIfEmpty([result EXCEPT ![run].end =
                                            Retract(@, prevChLength)])
                        ELSE result
           start == IF attach THEN utf16Pos - prevChLength ELSE utf16Pos
           pushed == IF opens
                     THEN Append(retracted, [start |-> start, end |-> start,
                                             family |-> family])
                     ELSE result
           run1 == IF opens THEN Len(pushed) ELSE run
       IN  /\ nextUtf16Pos' = readLength
           /\ nextCh' = nx.c
           /\ readLength' = nx.i
           /\ lastFamily' = IF opens THEN family ELSE lastFamily
           /\ run' = run1
           /\ prevCh' = ch
           /\ result' = [pushed EXCEPT ![run1].end = readLength]
           /\ pc' = IF nx.c # kEndOfString THEN "itemizing" ELSE "itemized"
    /\ UNCHANGED <<typefaces, sharedVars, collVars, queryVars, string, style,
                   threadVars>>

----------------------------------------------------------------------------
(* Specifications of the sequential API *)

SeqsUpTo(S, n) == UNION {[1..k -> S] : k \in 0..n}

TypeDefaults ==
    /\ pc = "new"
    /\ sNextId = 0
    /\ refCount = [f \in FamilyIds |-> 1]
    /\ gMinikinLock = 0
    /\ mId = 0 /\ mMaxChar = 0 /\ mFamilies = <<>> /\ mRanges = <<>>
    /\ mFamilyVec = <<>>
    /\ query = [ch |-> 0, vs |-> 0, langList |-> <<>>, variant |-> 0]
    /\ resolved = NULL
    /\ string = <<>> /\ style = [langList |-> <<>>, variant |-> 0]
    /\ result = <<>> /\ lastFamily = NULL /\ run = NULL
    /\ nextCh = 0 /\ prevCh = 0 /\ nextUtf16Pos = 0 /\ readLength = 0
    /\ tpc = <<>> /\ tcoll = <<>> /\ treg = <<>> /\ tidx = <<>>
    /\ targ = <<>> /\ tret = <<>>

Init ==
    /\ typefaces \in SeqsUpTo(FamilyIds, MaxResolveFamilies)
    /\ TypeDefaults

Next == Construct \/ Resolve

Spec == Init /\ [][Next]_vars

ItemizeFamilies == {2, 3, 4}

InitItemize ==
    /\ typefaces \in SeqsUpTo(ItemizeFamilies, MaxFamilies)
    /\ TypeDefaults

NextItemize == Construct \/ ItemizeStart \/ ItemizeStep

SpecItemize == InitItemize /\ [][NextItemize]_vars

----------------------------------------------------------------------------
(* Properties of getFamilyForChar, checked under Spec *)

Covers(f, ch) == CoverageGet(f, ch)
Supports(f, ch, vs) == FamilyHasVariationSelector(f, ch, vs)

\* the condition of the override rule on family 0, for the recorded query
FirstFamilyHasQuery ==
    /\ mFamilies # <<>>
    /\ IF query.vs = 0 THEN Covers(mFamilies[1], query.ch)
       ELSE Supports(mFamilies[1], query.ch, query.vs)

\* C2 as stated: whenever family 0 covers ch (no selector) or supports the
\* sequence (ch, vs) (selector requested), getFamilyForChar returns family 0.
OverrideRule ==
    (pc = "resolved" /\ FirstFamilyHasQuery) => resolved = mFamilies[1]

\* C2 amended: the override rule holds for every codepoint below mMaxChar.
OverrideRuleBelowMaxChar ==
    (pc = "resolved" /\ FirstFamilyHasQuery /\ query.ch < mMaxChar)
        => resolved = mFamilies[1]

\* the score the heuristic comment (lines 105-117) gives family f
ClaimScore(f) ==
    LET fam == FamilyTable[f]
        exact == query.vs # 0 /\ Supports(f, query.ch, query.vs)
    IN  2 * LangMatch(FirstLang(query.langList), fam.lang)
        + (IF fam.variant = 0 \/ fam.variant = query.variant THEN 1 ELSE 0)
        + (IF exact THEN 8
           ELSE IF (query.vs = 65039 /\ fam.emoji)
                   \/ (query.vs = 65038 /\ ~fam.emoji) THEN 4 ELSE 0)

\* a family 0 outscored by a later family that also covers the codepoint
OverrideWitness ==
    /\ pc = "resolved" /\ FirstFamilyHasQuery /\ query.ch < mMaxChar
    /\ resolved = mFamilies[1]
    /\ \E j \in 2..Len(mFamilies) :
          /\ Covers(mFamilies[j], query.ch)
          /\ ClaimScore(mFamilies[j]) > ClaimScore(mFamilies[1])

\* C3 as stated: getFamilyForChar returns no match exactly when the queried
\* codepoint is at or above mMaxChar.
NoMatchIffBeyondMaxChar ==
    pc = "resolved" => (resolved = NULL <=> query.ch >= mMaxChar)

\* positions of the ordered family list whose family matches the query
Matching ==
    {j \in 1..Len(mFamilies) :
        \/ Covers(mFamilies[j], query.ch)
        \/ (query.vs # 0 /\ Supports(mFamilies[j], query.ch, query.vs))}

\* the case of the scoring rule as stated: some family matches and the
\* override rule does not fire
ScoringCase ==
    /\ pc = "resolved"
    /\ Matching # {}
    /\ ~FirstFamilyHasQuery

\* the result is the matching candidate of maximum score, the earliest in
\* priority order among equal maxima
ReturnsBestMatching ==
    \E j \in Matching :
        /\ resolved = mFamilies[j]
        /\ \A k \in Matching :
              /\ ClaimScore(mFamilies[k]) <= ClaimScore(mFamilies[j])
              /\ (k < j => ClaimScore(mFamilies[k]) < ClaimScore(mFamilies[j]))

\* C10 as stated: whenever some family matches and the override rule does
\* not fire, the result is the matching candidate of maximum score (2 x
\* language match, +1 variant, +8 exact sequence, else +4 presentation), the
\* earliest in priority order among equal maxima.
ScoringSelection == ScoringCase => ReturnsBestMatching

\* C10 amended: the scoring selection holds for every codepoint below
\* mMaxChar.
ScoringSelectionBelowMaxChar ==
    (ScoringCase /\ query.ch < mMaxChar) => ReturnsBestMatching

\* no selector is requested, family 0 does not cover the codepoint, and two
\* distinct later families that cover it tie at the maximum: the earlier wins
ScoringWitness ==
    /\ ScoringCase /\ query.ch < mMaxChar
    /\ query.vs = 0
    /\ \E j, k \in Matching :
          /\ j < k
          /\ mFamilies[j] # mFamilies[k]
          /\ resolved = mFamilies[j]
          /\ ClaimScore(mFamilies[j]) = ClaimScore(mFamilies[k])

\* the ordered families that cover some codepoint of page p
RECURSIVE CoveringPage(_, _)
CoveringPage(fams, p) ==
    IF fams = <<>> THEN <<>>
    ELSE (IF \E c \in FamilyTable[Head(fams)].cov : PageOf(c) = p
          THEN <<Head(fams)>> ELSE <<>>) \o CoveringPage(Tail(fams), p)

PageSlice(p) ==
    SubSeq(mFamilyVec, mRanges[p + 1].start + 1, mRanges[p + 1].end)

\* the scan of lines 142-168 over a whole list, for the recorded query
ScanOf(vec, lo, hi) ==
    ScanRange(vec, lo, hi, query.ch, 0, FirstLang(query.langList),
              query.variant, NULL, -1)

\* C9: for a query without selector below mMaxChar the page is a valid
\* index, its range lists in priority order the families covering some
\* codepoint of the page, and the scan over the range returns what the scan
\* over the full family list returns.
PageIndexExact ==
    (pc = "resolved" /\ query.vs = 0 /\ query.ch < mMaxChar) =>
        /\ PageOf(query.ch) + 1 \in DOMAIN mRanges
        /\ PageSlice(PageOf(query.ch)) = CoveringPage(mFamilies, PageOf(query.ch))
        /\ ScanOf(mFamilyVec, mRanges[PageOf(query.ch) + 1].start,
                  mRanges[PageOf(query.ch) + 1].end)
             = ScanOf(mFamilies, 0, Len(mFamilies))

\* the page range leaves out a family of the collection and the scan still
\* finds a family
PageIndexWitness ==
    /\ pc = "resolved" /\ query.vs = 0 /\ query.ch < mMaxChar
    /\ Len(PageSlice(PageOf(query.ch))) >= 1
    /\ Len(PageSlice(PageOf(query.ch))) < Len(mFamilies)
    /\ ScanOf(mFamilies, 0, Len(mFamilies)).family # NULL
    /\ resolved = ScanOf(mFamilies, 0, Len(mFamilies)).family

----------------------------------------------------------------------------
(* Properties of itemize, checked under SpecItemize *)

\* the codepoints of s from code unit i on, each with its offset
RECURSIVE Decode(_, _)
Decode(s, i) ==
    IF i >= Len(s) THEN <<>>
    ELSE <<[ch |-> U16Next(s, i).c, pos |-> i]>> \o Decode(s, U16Next(s, i).i)

Cps == Decode(string, 0)

\* index of the run that holds code unit pos (0 when no run does)
RunAt(pos) ==
    LET R == {r \in 1..Len(result) :
                 result[r].start <= pos /\ pos < result[r].end}
    IN  IF R = {} THEN 0 ELSE SetMin(R)

FamilyAt(pos) == IF RunAt(pos) = 0 THEN -1 ELSE result[RunAt(pos)].family

RECURSIVE SumLengths(_)
SumLengths(res) ==
    IF res = <<>> THEN 0
    ELSE (Head(res).end - Head(res).start) + SumLengths(Tail(res))

\* the family the resolver picks for the k-th codepoint of the text
ResolvedAt(k) ==
    getFamilyForChar(Cps[k].ch,
                     IF k < Len(Cps) /\ isVariationSelector(Cps[k + 1].ch)
                     THEN Cps[k + 1].ch ELSE 0,
                     style.langList, style.variant)

Itemized == pc = "itemized" /\ Len(string) > 0

\* C1: the runs of a non-empty input partition it: the first starts at 0,
\* each ends where the next starts, none is empty, the last ends at the
\* input length, and the run lengths sum to the input length.
RunsPartitionInput ==
    Itemized =>
        /\ Len(result) >= 1
        /\ result[1].start = 0
        /\ \A r \in 1..Len(result) : result[r].start < result[r].end
        /\ \A r \in 1..(Len(result) - 1) : result[r].end = result[r + 1].start
        /\ result[Len(result)].end = Len(string)
        /\ SumLengths(result) = Len(string)

\* the k-th codepoint is a keycap whose run took the codepoint before it away
\* from the run of another family
KeycapRetracted(k) ==
    /\ k \in 2..Len(Cps)
    /\ Cps[k].ch = KEYCAP
    /\ RunAt(Cps[k].pos) # 0
    /\ result[RunAt(Cps[k].pos)].start = Cps[k - 1].pos
    /\ ResolvedAt(k - 1) # FamilyAt(Cps[k].pos)
    /\ ~isStickyWhitelisted(Cps[k - 1].ch)
    /\ ~isVariationSelector(Cps[k - 1].ch)

\* a retraction took a two-unit codepoint out of the previous run
PartitionWitness ==
    /\ Itemized
    /\ \E k \in 2..Len(Cps) :
          /\ KeycapRetracted(k)
          /\ Cps[k - 1].ch > 65535

\* C4 as stated: a variation selector that is not the first codepoint never
\* starts a run; it lies in the run of the codepoint before it.
SelectorNeverStartsRun ==
    Itemized =>
        \A k \in 2..Len(Cps) :
            isVariationSelector(Cps[k].ch) =>
                /\ \A r \in 1..Len(result) : result[r].start # Cps[k].pos
                /\ RunAt(Cps[k].pos) = RunAt(Cps[k - 1].pos)

\* C5, on the output: a keycap that is not first and whose run's family
\* covers the codepoint before it shares its run with that codepoint.
KeycapSharesRun ==
    Itemized =>
        \A k \in 2..Len(Cps) :
            (/\ Cps[k].ch = KEYCAP
             /\ FamilyAt(Cps[k].pos) > NULL
             /\ Covers(FamilyAt(Cps[k].pos), Cps[k - 1].ch))
                => /\ RunAt(Cps[k].pos) = RunAt(Cps[k - 1].pos)
                   /\ RunAt(Cps[k].pos) # 0

\* the step that handled a keycap opened a run of a family that differs from
\* the previous one and covers the previous codepoint
KeycapMergeStep ==
    /\ pc = "itemizing"
    /\ nextCh = KEYCAP
    /\ nextUtf16Pos # 0
    /\ lastFamily' # lastFamily
    /\ lastFamily' # NULL
    /\ Covers(lastFamily', prevCh)

\* C5, on the step: the merge shortens the previous run by exactly the
\* UTF-16 length of the previous codepoint, removes it if that empties it,
\* and starts the keycap's run at the previous codepoint.
KeycapShortensPrevious ==
    KeycapMergeStep =>
        LET n == Len(result)
            len == IF prevCh > 65535 THEN 2 ELSE 1
        IN  IF result[n].end - result[n].start = len
            THEN /\ Len(result') = n
                 /\ SubSeq(result', 1, n - 1) = SubSeq(result, 1, n - 1)
                 /\ result'[n].start = nextUtf16Pos - len
                 /\ result'[n].family = lastFamily'
            ELSE /\ Len(result') = n + 1
                 /\ SubSeq(result', 1, n - 1) = SubSeq(result, 1, n - 1)
                 /\ result'[n] = [result[n] EXCEPT !.end = @ - len]
                 /\ result'[n + 1].start = nextUtf16Pos - len
                 /\ result'[n + 1].family = lastFamily'

\* C5: the keycap merge.
KeycapMerge == [](KeycapSharesRun) /\ [][KeycapShortensPrevious]_vars

\* the merge moved a codepoint that had resolved to another family into the
\* keycap's run
KeycapMergeWitness ==
    /\ Itemized
    /\ \E k \in 2..Len(Cps) :
          /\ KeycapRetracted(k)
          /\ Covers(FamilyAt(Cps[k].pos), Cps[k - 1].ch)
          /\ RunAt(Cps[k].pos) = RunAt(Cps[k - 1].pos)

\* the codepoints C6 speaks of
Plain(k) ==
    /\ ~isStickyWhitelisted(Cps[k].ch)
    /\ ~isVariationSelector(Cps[k].ch)
    /\ ~(k < Len(Cps) /\ Cps[k + 1].ch = KEYCAP)

\* C6: the run of every plain codepoint carries the family the resolver
\* picks for it (with the next codepoint as selector when it is one), and in
\* a text of plain codepoints only, a run boundary lies between two adjacent
\* codepoints exactly when their resolved families differ.
RunFamilyIsResolved ==
    Itemized =>
        /\ \A k \in 1..Len(Cps) :
              Plain(k) => FamilyAt(Cps[k].pos) = ResolvedAt(k)
        /\ (\A k \in 1..Len(Cps) : Plain(k)) =>
              \A k \in 1..(Len(Cps) - 1) :
                  (RunAt(Cps[k].pos) # RunAt(Cps[k + 1].pos))
                      <=> (ResolvedAt(k) # ResolvedAt(k + 1))

\* "3A" with family 0 covering '3' but not 'A' and family 1 covering both:
\* two runs, [0,1) of family 0 and [1,2) of family 1
RunFamilyWitness ==
    /\ Itemized
    /\ string = <<51, 65>>
    /\ Len(mFamilies) = 2
    /\ Covers(mFamilies[1], 51) /\ ~Covers(mFamilies[1], 65)
    /\ Covers(mFamilies[2], 51) /\ Covers(mFamilies[2], 65)
    /\ result = <<[start |-> 0, end |-> 1, family |-> mFamilies[1]],
                  [start |-> 1, end |-> 2, family |-> mFamilies[2]]>>

\* C7 as stated: no two consecutive runs carry the same family.
RunsAreMaximal ==
    Itemized =>
        \A r \in 1..(Len(result) - 1) : result[r].family # result[r + 1].family

----------------------------------------------------------------------------
(* Threads that construct and destroy collections sharing families.  Every *)
(* thread builds one collection from typefaces and then destroys it.       *)
(* RefLocked and UnrefLocked update a plain counter: a load into the       *)
(* thread's register treg and a store.  A live collection also answers    *)
(* hasVariationSelector, which takes the lock once per family.            *)

Threads == 1..NumThreads

Running == \A t \in Threads : tpc[t] # "fatal"

NewColl == [mId |-> 0, mMaxChar |-> 0, mFamilies |-> <<>>, mRanges |-> <<>>,
            mFamilyVec |-> <<>>]

\* line 42: AutoMutex _l(gMinikinLock)
TCtorLock(t) ==
    /\ Running /\ tpc[t] = "start"
    /\ gMinikinLock = 0
    /\ gMinikinLock' = t
    /\ tpc' = [tpc EXCEPT ![t] = "c_id"]
    /\ UNCHANGED <<typefaces, pc, sNextId, refCount, collVars, queryVars,
                   itemVars, tcoll, treg, tidx, targ, tret>>

\* line 43: mId = sNextId++
TCtorId(t) ==
    /\ Running /\ tpc[t] = "c_id"
    /\ tcoll' = [tcoll EXCEPT ![t].mId = sNextId]
    /\ sNextId' = sNextId + 1
    /\ tidx' = [tidx EXCEPT ![t] = 1]
    /\ tpc' = [tpc EXCEPT ![t] = "c_loop"]
    /\ UNCHANGED <<typefaces, pc, refCount, gMinikinLock, collVars, queryVars,
                   itemVars, treg, targ, tret>>

\* lines 50-56: the loop head, the font test and the load of RefLocked
TCtorFamily(t) ==
    /\ Running /\ tpc[t] = "c_loop"
    /\ IF tidx[t] > Len(typefaces)
       THEN /\ tpc' = [tpc EXCEPT ![t] = "c_index"]
            /\ UNCHANGED <<treg, tidx>>
       ELSE IF ~HasClosestMatch(typefaces[tidx[t]])
       THEN /\ tidx' = [tidx EXCEPT ![t] = @ + 1]
            /\ UNCHANGED <<tpc, treg>>
       ELSE /\ treg' = [treg EXCEPT ![t] = refCount[typefaces[tidx[t]]]]
            /\ tpc' = [tpc EXCEPT ![t] = "c_ref"]
            /\ UNCHANGED tidx
    /\ UNCHANGED <<typefaces, pc, sharedVars, collVars, queryVars, itemVars,
                   tcoll, targ, tret>>

\* lines 56-65: the store of RefLocked, the coverage test and the push
TCtorRefStore(t) ==
    /\ Running /\ tpc[t] = "c_ref"
    /\ refCount' = [refCount EXCEPT ![typefaces[tidx[t]]] = treg[t] + 1]
    /\ IF ~HasCoverage(typefaces[tidx[t]])
       THEN /\ tpc' = [tpc EXCEPT ![t] = "c_unref_load"]
            /\ UNCHANGED <<tcoll, tidx>>
       ELSE /\ tcoll' = [tcoll EXCEPT ![t].mFamilies =
                                          Append(@, typefaces[tidx[t]])]
            /\ tidx' = [tidx EXCEPT ![t] = @ + 1]
            /\ tpc' = [tpc EXCEPT ![t] = "c_loop"]
    /\ UNCHANGED <<typefaces, pc, sNextId, gMinikinLock, collVars, queryVars,
                   itemVars, treg, targ, tret>>

\* line 59: the load of UnrefLocked
TCtorUnrefLoad(t) ==
    /\ Running /\ tpc[t] = "c_unref_load"
    /\ treg' = [treg EXCEPT ![t] = refCount[typefaces[tidx[t]]]]
    /\ tpc' = [tpc EXCEPT ![t] = "c_unref"]
    /\ UNCHANGED <<typefaces, pc, sharedVars, collVars, queryVars, itemVars,
                   tcoll, tidx, targ, tret>>

\* lines 59-60: the store of UnrefLocked and the continue
TCtorUnrefStore(t) ==
    /\ Running /\ tpc[t] = "c_unref"
    /\ refCount' = [refCount EXCEPT ![typefaces[tidx[t]]] = treg[t] - 1]
    /\ tidx' = [tidx EXCEPT ![t] = @ + 1]
    /\ tpc' = [tpc EXCEPT ![t] = "c_loop"]
    /\ UNCHANGED <<typefaces, pc, sNextId, gMinikinLock, collVars, queryVars,
                   itemVars, tcoll, treg, targ, tret>>

\* lines 66-97: the fatal check, the page index, and the release of the
\* lock at the end of the constructor's scope
TCtorFinish(t) ==
    /\ Running /\ tpc[t] = "c_index"
    /\ IF Len(tcoll[t].mFamilies) = 0
       THEN /\ tpc' = [tpc EXCEPT ![t] = "fatal"]
            /\ UNCHANGED <<tcoll, gMinikinLock>>
       ELSE /\ tcoll' = [tcoll EXCEPT
                  ![t].mMaxChar = CtorMaxChar(tcoll[t].mFamilies, 1),
                  ![t].mRanges = CtorIndex(tcoll[t].mFamilies).mRanges,
                  ![t].mFamilyVec = CtorIndex(tcoll[t].mFamilies).mFamilyVec]
            /\ gMinikinLock' = IF gMinikinLock = t THEN 0 ELSE gMinikinLock
            /\ tpc' = [tpc EXCEPT ![t] = "live"]
    /\ UNCHANGED <<typefaces, pc, sNextId, refCount, collVars, queryVars,
                   itemVars, treg, tidx, targ, tret>>

\* line 99: the destructor is entered; it acquires nothing
TDtorBegin(t) ==
    /\ Running /\ tpc[t] = "live"
    /\ tidx' = [tidx EXCEPT ![t] = 1]
    /\ tpc' = [tpc EXCEPT ![t] = "d_loop"]
    /\ UNCHANGED <<typefaces, pc, sharedVars, collVars, queryVars, itemVars,
                   tcoll, treg, targ, tret>>

\* lines 100-101: the loop head and the load of UnrefLocked
TDtorLoad(t) ==
    /\ Running /\ tpc[t] = "d_loop"
    /\ IF tidx[t] > Len(tcoll[t].mFamilies)
       THEN /\ tpc' = [tpc EXCEPT ![t] = "dead"]
            /\ UNCHANGED treg
       ELSE /\ treg' = [treg EXCEPT ![t] = refCount[tcoll[t].mFamilies[tidx[t]]]]
            /\ tpc' = [tpc EXCEPT ![t] = "d_unref"]
    /\ UNCHANGED <<typefaces, pc, sharedVars, collVars, queryVars, itemVars,
                   tcoll, tidx, targ, tret>>

\* line 101: the store of UnrefLocked
TDtorStore(t) ==
    /\ Running /\ tpc[t] = "d_unref"
    /\ refCount' = [refCount EXCEPT ![tcoll[t].mFamilies[tidx[t]]] = treg[t] - 1]
    /\ tidx' = [tidx EXCEPT ![t] = @ + 1]
    /\ tpc' = [tpc EXCEPT ![t] = "d_loop"]
    /\ UNCHANGED <<typefaces, pc, sNextId, gMinikinLock, collVars, queryVars,
                   itemVars, tcoll, treg, targ, tret>>

\* lines 215-216: the arguments of hasVariationSelector
HvsBases == {51, 65, 197}
HvsSelectors == {0, 65038, 65039}
NoCall == [baseCodepoint |-> 0, variationSelector |-> 0]

\* lines 215-232 as one sequential call: the value returned
hasVariationSelector(coll, baseCodepoint, variationSelector) ==
    IF ~isVariationSelector(variationSelector) THEN FALSE
    ELSE IF baseCodepoint >= coll.mMaxChar THEN FALSE
    ELSE \E i \in 1..Len(coll.mFamilies) :
            FamilyHasVariationSelector(coll.mFamilies[i], baseCodepoint,
                                       variationSelector)

\* lines 215-224: the call on the thread's own collection and the two early
\* returns, taken before any lock
THasVsBegin(t) ==
    /\ Running /\ tpc[t] = "live"
    /\ \E b \in HvsBases, v \in HvsSelectors :
        IF ~isVariationSelector(v) \/ b >= tcoll[t].mMaxChar
        THEN /\ targ' = [targ EXCEPT ![t] = [baseCodepoint |-> b,
                                             variationSelector |-> v]]
             /\ tret' = [tret EXCEPT ![t] = FALSE]
             /\ UNCHANGED <<tpc, tidx>>
        ELSE /\ targ' = [targ EXCEPT ![t] = [baseCodepoint |-> b,
                                             variationSelector |-> v]]
             /\ tidx' = [tidx EXCEPT ![t] = 1]
             /\ tpc' = [tpc EXCEPT ![t] = "h_loop"]
             /\ UNCHANGED tret
    /\ UNCHANGED <<typefaces, pc, sharedVars, collVars, queryVars, itemVars,
                   tcoll, treg>>

\* lines 225-226 and 231: the loop head; AutoMutex _l(gMinikinLock) is taken
\* anew for every family, and the loop's end returns false
THasVsLock(t) ==
    /\ Running /\ tpc[t] = "h_loop"
    /\ IF tidx[t] > Len(tcoll[t].mFamilies)
       THEN /\ tret' = [tret EXCEPT ![t] = FALSE]
            /\ tpc' = [tpc EXCEPT ![t] = "live"]
            /\ UNCHANGED <<gMinikinLock, targ>>
       ELSE /\ gMinikinLock = 0
            /\ gMinikinLock' = t
            /\ tpc' = [tpc EXCEPT ![t] = "h_test"]
            /\ UNCHANGED <<targ, tret>>
    /\ UNCHANGED <<typefaces, pc, sNextId, refCount, collVars, queryVars,
                   itemVars, tcoll, treg, tidx>>

\* lines 227-230: the family's test under the lock; the lock is released at
\* the end of the loop body, on the return and on the next iteration alike
THasVsTest(t) ==
    /\ Running /\ tpc[t] = "h_test"
    /\ gMinikinLock' = IF gMinikinLock = t THEN 0 ELSE gMinikinLock
    /\ IF FamilyHasVariationSelector(tcoll[t].mFamilies[tidx[t]],
                                     targ[t].baseCodepoint,
                                     targ[t].variationSelector)
       THEN /\ tret' = [tret EXCEPT ![t] = TRUE]
            /\ tpc' = [tpc EXCEPT ![t] = "live"]
            /\ UNCHANGED <<tidx, targ>>
       ELSE /\ tidx' = [tidx EXCEPT ![t] = @ + 1]
            /\ tpc' = [tpc EXCEPT ![t] = "h_loop"]
            /\ UNCHANGED <<targ, tret>>
    /\ UNCHANGED <<typefaces, pc, sNextId, refCount, collVars, queryVars,
                   itemVars, tcoll, treg>>

LockFamilies == {1, 5, 7, 8}

InitLock ==
    /\ typefaces \in SeqsUpTo(LockFamilies, MaxFamilies)
    /\ pc = "threads"
    /\ sNextId = 0
    /\ refCount = [f \in FamilyIds |-> 1]
    /\ gMinikinLock = 0
    /\ mId = 0 /\ mMaxChar = 0 /\ mFamilies = <<>> /\ mRanges = <<>>
    /\ mFamilyVec = <<>>
    /\ query = [ch |-> 0, vs |-> 0, langList |-> <<>>, variant |-> 0]
    /\ resolved = NULL
    /\ string = <<>> /\ style = [langList |-> <<>>, variant |-> 0]
    /\ result = <<>> /\ lastFamily = NULL /\ run = NULL
    /\ nextCh = 0 /\ prevCh = 0 /\ nextUtf16Pos = 0 /\ readLength = 0
    /\ tpc = [t \in Threads |-> "start"]
    /\ tcoll = [t \in Threads |-> NewColl]
    /\ treg = [t \in Threads |-> 0]
    /\ tidx = [t \in Threads |-> 1]
    /\ targ = [t \in Threads |-> NoCall]
    /\ tret = [t \in Threads |-> FALSE]

NextLock ==
    \E t \in Threads :
        \/ TCtorLock(t) \/ TCtorId(t) \/ TCtorFamily(t) \/ TCtorRefStore(t)
        \/ TCtorUnrefLoad(t) \/ TCtorUnrefStore(t) \/ TCtorFinish(t)
        \/ TDtorBegin(t) \/ TDtorLoad(t) \/ TDtorStore(t)
        \/ THasVsBegin(t) \/ THasVsLock(t) \/ THasVsTest(t)

SpecLock == InitLock /\ [][NextLock]_vars

\* a finished hasVariationSelector call returned what lines 215-232 compute
\* on the thread's collection
HasVariationSelectorReturn ==
    \A t \in Threads :
        (tpc[t] = "live" /\ targ[t] # NoCall)
            => tret[t] = hasVariationSelector(tcoll[t], targ[t].baseCodepoint,
                                              targ[t].variationSelector)

\* the thread is between the load and the store of a reference count, or
\* about to read and increment the id counter
AccessesShared(t) == tpc[t] \in {"c_id", "c_ref", "c_unref", "d_unref"}

\* a thread that accesses the id counter or a reference count holds the lock
HoldsLockOnAccess == \A t \in Threads : AccessesShared(t) => gMinikinLock = t

Constructed(t) == tpc[t] \in {"live", "d_loop", "d_unref", "dead"}

\* no two collections get the same id
UniqueIds ==
    \A t, u \in Threads :
        (t # u /\ Constructed(t) /\ Constructed(u))
            => tcoll[t].mId # tcoll[u].mId

\* once every collection is destroyed each count is back at its initial value
NoLostRefUpdate ==
    (\A t \in Threads : tpc[t] = "dead") => refCount = [f \in FamilyIds |-> 1]

\* C8 as stated: every access to the id counter and to a reference count is
\* made holding the shared lock (construction and destruction acquire it),
\* so no two collections get the same id and no reference-count update is
\* lost.
LockDiscipline == HoldsLockOnAccess /\ UniqueIds /\ NoLostRefUpdate

====
